---- MODULE Spec2Model ----
(***************************************************************************)
(* A model of the qwxl pipeline: the import resolver (parser.rs), the      *)
(* template renderer (renderer.rs) and the script emitter (emitter.rs),    *)
(* working on the stores of PipelineStore (pipeline.rs, cache.rs).         *)
(*                                                                         *)
(* Abstractions.  A cmd template is the sequence of its segments (literal  *)
(* text, `{{ props.k }}`, `{{ [sub.]tasks.t }}`, `{{ [sub.]tasks.t(k=v) }}`)*)
(* and a rendered cmd is the sequence of the text pieces it is made of     *)
(* (string concatenation is sequence concatenation).  Prop values are      *)
(* strings.  The 64-bit hashes are taken to be collision free: a content   *)
(* hash is a number given by the content, a task-node hash is the pair of  *)
(* the hashed template and the hashed serialization of the props.          *)
(***************************************************************************)
EXTENDS Integers, Sequences, FiniteSets, TLC

\* ------------------------------------------------------------------ bounds

\* The depth of native recursion the process survives: a deeper recursion of
\* Pipeline::parse or compile_task_internal overflows the stack and aborts.
StackLimit == 4

\* The number of TaskNodes a tasks store holds at most when the emitter's
\* expansion is run on the contents the store can have.
MaxNodes == 2

\* ------------------------------------------------------------------- maps

EmptyMap == [k \in {} |-> ""]

Put(m, k, v) == [x \in DOMAIN m \cup {k} |-> IF x = k THEN v ELSE m[x]]

\* HashMap::extend: the entries of b overwrite those of a.
Extend(a, b) == [x \in DOMAIN a \cup DOMAIN b |-> IF x \in DOMAIN b THEN b[x] ELSE a[x]]

\* The orders in which a hash map or hash set of S can be iterated.
Orders(S) == {s \in [1..Cardinality(S) -> S] : \A i, j \in 1..Cardinality(S) : i # j => s[i] # s[j]}

\* -------------------------------------------------------------------- ast

\* UseRef: absent, Define(path) before resolution, Hash(h) after.
NoUse == [kind |-> "none", path |-> "", h |-> 0]
Define(p) == [kind |-> "define", path |-> p, h |-> 0]
Hash(h) == [kind |-> "hash", path |-> "", h |-> h]

Module(uses, props, tasks, modules) == [uses |-> uses, props |-> props, tasks |-> tasks, modules |-> modules]

DefaultModule == Module(NoUse, EmptyMap, EmptyMap, EmptyMap)

Task(uses, props, cmd) == [uses |-> uses, props |-> props, cmd |-> cmd]

DefaultTask == Task(NoUse, EmptyMap, <<>>)

MetaModule(module, hash) == [module |-> module, hash |-> hash]

\* Template segments.  `args` holds the call's arguments as the engine hands
\* them to the function: nothing, or the keyword arguments as one map.
Lit(text) == [kind |-> "lit", text |-> text, path |-> <<>>, name |-> "", args |-> <<>>]
Prop(k) == [kind |-> "prop", text |-> "", path |-> <<>>, name |-> k, args |-> <<>>]
Ref(path, t) == [kind |-> "ref", text |-> "", path |-> path, name |-> t, args |-> <<>>]
Call(path, t, args) == [kind |-> "call", text |-> "", path |-> path, name |-> t, args |-> args]

Kw(m) == <<m>>

Cmd(cmd) == Task(NoUse, EmptyMap, cmd)

\* What the engine prints for a function value that is not called.
FnRepr == "<function>"

TaskNode(cmd, deps, hash, alias) == [cmd |-> cmd, deps |-> deps, hash |-> hash, alias |-> alias]

DefaultTaskNode == TaskNode(<<>>, {}, <<>>, "")

RootAlias == "root"

\* -------------------------------------------------------------- scenarios

\* The modules a harness registers, in order, before it renders: the
\* arrangements of the tests of renderer.rs and emitter.rs, and a few more.
Reg(alias, module, hash) == [alias |-> alias, module |-> module, hash |-> hash]

OneProp(k, v) == [x \in {k} |-> v]

PrecedenceRoot ==
    Module(NoUse, OneProp("val", "MODULE_LEVEL"),
           [t \in {"base", "override_task"} |->
               IF t = "base" THEN Cmd(<<Prop("val")>>)
               ELSE Task(NoUse, OneProp("val", "TASK_LEVEL"), <<Prop("val")>>)],
           EmptyMap)

PrecedenceCall ==
    Module(NoUse, OneProp("val", "MODULE_LEVEL"),
           [t \in {"identity", "caller"} |->
               IF t = "identity" THEN Cmd(<<Prop("val")>>)
               ELSE Cmd(<<Call(<<>>, "identity", Kw(OneProp("val", "CALL_LEVEL")))>>)],
           EmptyMap)

CallingRoot ==
    Module(NoUse, EmptyMap,
           [t \in {"greeter", "wrapper", "named", "ghost"} |->
               CASE t = "greeter" -> Cmd(<<Lit("Hello")>>)
                 [] t = "wrapper" -> Cmd(<<Call(<<>>, "greeter", <<>>), Lit(" World")>>)
                 [] t = "named" -> Cmd(<<Lit("run "), Ref(<<>>, "greeter")>>)
                 [] OTHER -> Cmd(<<Lit("run "), Ref(<<>>, "nothing")>>)],
           EmptyMap)

UtilsMod ==
    Module(NoUse, OneProp("prefix", "DEFAULT"),
           [t \in {"log"} |-> Cmd(<<Lit("LOG: "), Prop("prefix"), Lit(" "), Prop("msg")>>)],
           EmptyMap)

SubmoduleRoot ==
    Module(NoUse, EmptyMap,
           [t \in {"main"} |-> Cmd(<<Call(<<"utils">>, "log", Kw(OneProp("msg", "Injected")))>>)],
           [m \in {"utils"} |-> [UtilsMod EXCEPT !.props = OneProp("prefix", "OVERRIDDEN")]])

LibHash == 41

LibMod ==
    Module(NoUse, OneProp("mode", "default"),
           [t \in {"main"} |-> Cmd(<<Lit("Library Action: "), Prop("mode")>>)],
           EmptyMap)

ConsumerMod ==
    Module(NoUse, EmptyMap,
           [t \in {"deploy", "caller"} |->
               IF t = "deploy"
               THEN Task(Hash(LibHash), OneProp("mode", "sugar"), <<Lit("this should be ignored")>>)
               ELSE Cmd(<<Call(<<>>, "deploy", Kw(OneProp("mode", "call")))>>)],
           EmptyMap)

BaseHash == 100

MiddleHash == 101

BaseMod ==
    Module(NoUse, [k \in {"val", "deep"} |-> IF k = "val" THEN "base" ELSE "deep"],
           [t \in {"run"} |-> Cmd(<<Lit("Value: "), Prop("val")>>)],
           EmptyMap)

MiddleMod == Module(Hash(BaseHash), OneProp("val", "middle"), EmptyMap, EmptyMap)

AppMod ==
    Module(Hash(MiddleHash), OneProp("val", "app"),
           [t \in {"show"} |-> Cmd(<<Lit("Deep: "), Prop("deep")>>)],
           EmptyMap)

HelperLib == Module(NoUse, EmptyMap, [t \in {"helper"} |-> Cmd(<<Lit("echo help")>>)], EmptyMap)

DepsRoot ==
    Module(NoUse, EmptyMap,
           [t \in {"main", "build", "compile"} |->
               IF t = "main" THEN Cmd(<<Call(<<"lib">>, "helper", <<>>)>>)
               ELSE Cmd(<<Lit("make")>>)],
           [m \in {"lib"} |-> HelperLib])

\* Templates that lead back to themselves: `loop` calls itself, `ping` and
\* `pong` call each other, `main` has `uses` of the module it is in.
LoopRoot ==
    Module(NoUse, EmptyMap,
           [t \in {"loop", "ping", "pong", "main"} |->
               CASE t = "loop" -> Cmd(<<Lit("again "), Call(<<>>, "loop", <<>>)>>)
                 [] t = "ping" -> Cmd(<<Call(<<>>, "pong", <<>>)>>)
                 [] t = "pong" -> Cmd(<<Call(<<>>, "ping", <<>>)>>)
                 [] OTHER -> Task(Hash(50), EmptyMap, <<>>)],
           EmptyMap)

Props(keys, v) == [k \in keys |-> v]

\* A submodule with `uses` of the module lib (hash 70, props c and d), which
\* has `uses` of the module base (hash 69, prop f), called from a module that
\* has props of its own: every layer a prop can come from defines some of
\* a, b, c, d, e, f.
LayerSub ==
    Module(Hash(70), Props({"b", "c"}, "SUB"),
           [t \in {"show"} |->
               Task(NoUse, Props({"a", "b"}, "TASK"),
                    <<Prop("a"), Prop("b"), Prop("c"), Prop("d"), Prop("e"), Prop("f")>>)],
           EmptyMap)

LayerRoot ==
    Module(NoUse, Props({"a", "d", "e"}, "ROOT"),
           [t \in {"main"} |-> Cmd(<<Call(<<"sub">>, "show", Kw(OneProp("a", "CALL")))>>)],
           [m \in {"sub"} |-> LayerSub])

\* The same template, `{{ tasks.x() }}`, in a module and in its submodule,
\* each with an x of its own.
SiblingRoot ==
    Module(NoUse, EmptyMap,
           [t \in {"x", "a", "both"} |->
               CASE t = "x" -> Cmd(<<Lit("root x")>>)
                 [] t = "a" -> Cmd(<<Call(<<>>, "x", <<>>)>>)
                 [] OTHER -> Cmd(<<Call(<<>>, "x", <<>>), Lit(" "), Call(<<"sub">>, "a", <<>>)>>)],
           [m \in {"sub"} |->
               Module(NoUse, EmptyMap,
                      [t \in {"x", "a"} |->
                          IF t = "x" THEN Cmd(<<Lit("sub x")>>) ELSE Cmd(<<Call(<<>>, "x", <<>>)>>)],
                      EmptyMap)])

Scenario(s) ==
    CASE s = "precedence" -> <<Reg("root", PrecedenceRoot, 10), Reg("root_call", PrecedenceCall, 11)>>
      [] s = "calling" -> <<Reg("root", CallingRoot, 20)>>
      [] s = "submodule" -> <<Reg("ignored", UtilsMod, 31), Reg("root", SubmoduleRoot, 30)>>
      [] s = "sugar" -> <<Reg("lib", LibMod, LibHash), Reg("consumer", ConsumerMod, 40)>>
      [] s = "deep" -> <<Reg("base", BaseMod, BaseHash), Reg("middle", MiddleMod, MiddleHash),
                         Reg("app", AppMod, 102)>>
      [] s = "deps" -> <<Reg("lib", HelperLib, 10), Reg("root", DepsRoot, 20)>>
      [] s = "loop" -> <<Reg("root", LoopRoot, 50)>>
      [] s = "layers" -> <<Reg("base", Module(NoUse, Props({"f"}, "BASE"), EmptyMap, EmptyMap), 69),
                           Reg("lib", Module(Hash(69), Props({"c", "d"}, "USES"), EmptyMap, EmptyMap), 70),
                           Reg("root", LayerRoot, 71)>>
      [] s = "siblings" -> <<Reg("root", SiblingRoot, 80)>>
      [] OTHER -> <<>>

Scenarios == {"precedence", "calling", "submodule", "sugar", "deep", "deps", "loop", "layers", "siblings"}

\* ------------------------------------------------------------------ state

VARIABLES
    scenario,     \* the harness: which arrangement it runs
    regIdx,       \* the harness: how many modules it has registered
    content,      \* PipelineStore.content: path -> text
    metamodules,  \* PipelineStore.metamodules: content hash -> MetaModule
    aliases,      \* PipelineStore.aliases: alias -> content hash
    tasks,        \* PipelineStore.tasks: node hash -> TaskNode
    pc,           \* Pipeline::render: "idle", "run", or "crashed" (stack overflow)
    req,          \* the render in progress: alias, task, and who asked
    stack,        \* the activations of compile_task_internal, innermost last
    ret,          \* the TaskNode an activation has just returned
    visited,      \* the render's shared `visited` set
    result,       \* what the last finished render returned
    genPc,        \* ShellGenerator::generate: "idle", "entries", "collect", "bfs"
    genTodo,      \* root task names not yet compiled
    genCmds,      \* root_task_names, in the order iterated
    genOut,       \* tasks_to_render
    genSeen,      \* visited_hashes
    genQueue,     \* processing_queue
    script,       \* what the last finished generate returned
    fs,           \* the files on disk: file name -> text (0: no such file)
    features,     \* Config.features, split at the commas
    ppc,          \* Pipeline::parse_root: "idle", "run", "done", "crashed"
    pstack,       \* the activations of Pipeline::parse, innermost last
    pret,         \* the MetaModule an activation of parse has just returned
    presult,      \* what parse_root returned
    compiled,     \* Pipeline::compile: running, or what it returned
    loaded        \* what the last load_file called from outside returned

harnessVars == <<scenario, regIdx>>

storeVars == <<content, metamodules, aliases, tasks>>

renderVars == <<pc, req, stack, ret, visited, result>>

genVars == <<genPc, genTodo, genCmds, genOut, genSeen, genQueue, script>>

parseVars == <<fs, features, ppc, pstack, pret, presult>>

apiVars == <<compiled, loaded>>

vars == <<harnessVars, storeVars, renderVars, genVars, parseVars, apiVars>>

\* `called` is history: the hashes of the nodes the activation's template got
\* back from its task references.
NoRet == [kind |-> "none", node |-> DefaultTaskNode, called |-> {}]

NodeRet(n, called) == [kind |-> "node", node |-> n, called |-> called]

\* A Result<TaskNode, PipelineError>, with the request it answers.
NoResult == [kind |-> "none", node |-> DefaultTaskNode, err |-> "", alias |-> "", task |-> ""]

Ok(n, r) == [kind |-> "ok", node |-> n, err |-> "", alias |-> r.alias, task |-> r.task]

Err(e, r) == [kind |-> "err", node |-> DefaultTaskNode, err |-> e, alias |-> r.alias, task |-> r.task]

NoReq == [alias |-> "", task |-> "", by |-> ""]

NoScript == [kind |-> "none", tasks |-> <<>>, commands |-> <<>>, root_alias |-> "", err |-> ""]

\* --------------------------------------------------------------- renderer

\* An activation of compile_task_internal.  phase "enter": called, nothing
\* done yet; "render": its template is being rendered, `pos` the segment
\* reached and `out` the text so far; "tail": waiting for the `main` it
\* delegated to.
Frame(phase, module, name, call, def, eff, key, pos, out, called) ==
    [phase |-> phase, module |-> module, name |-> name, call |-> call, def |-> def,
     eff |-> eff, key |-> key, pos |-> pos, out |-> out, called |-> called]

EnterFrame(module, name, call) ==
    Frame("enter", module, name, call, DefaultTask, EmptyMap, <<>>, 0, <<>>, {})

Top == stack[Len(stack)]

Pop == SubSeq(stack, 1, Len(stack) - 1)

ReplaceTop(f) == [stack EXCEPT ![Len(stack)] = f]

NotFound == [found |-> FALSE, def |-> DefaultTask]

Found(d) == [found |-> TRUE, def |-> d]

\* compile_task_internal, step 1: the module's own task, else the task of the
\* module its `uses` names.
TaskLookup(module, name) ==
    IF name \in DOMAIN module.tasks THEN Found(module.tasks[name])
    ELSE IF module.uses.kind = "hash"
         THEN IF module.uses.h \in DOMAIN metamodules
                 /\ name \in DOMAIN metamodules[module.uses.h].module.tasks
              THEN Found(metamodules[module.uses.h].module.tasks[name])
              ELSE NotFound
         ELSE NotFound

\* TaskScopeProxy::get_value: the same lookup, for `tasks.<name>` in a template.
ProxyLookup(module, name) ==
    IF name \in DOMAIN module.tasks THEN Found(module.tasks[name])
    ELSE IF module.uses.kind = "hash"
         THEN IF module.uses.h \in DOMAIN metamodules
                 /\ name \in DOMAIN metamodules[module.uses.h].module.tasks
              THEN Found(metamodules[module.uses.h].module.tasks[name])
              ELSE NotFound
         ELSE NotFound

\* The merge the other way round: the task's props override the call's.
MergedPropsTaskWins(taskProps, callProps) == Extend(callProps, taskProps)

\* The props of the virtual module of a task with `uses`: the call's
\* props extend the task's.
MergedProps(taskProps, callProps) == Extend(taskProps, callProps)

VirtualModule(h, props) == Module(Hash(h), props, EmptyMap, EmptyMap)

\* compile_task_internal, step 2.
EffectiveProps(module, def, call) ==
    LET inherited == IF module.uses.kind = "hash" /\ module.uses.h \in DOMAIN metamodules
                     THEN metamodules[module.uses.h].module.props
                     ELSE EmptyMap
    IN Extend(Extend(Extend(inherited, module.props), def.props), call)

\* serde_json::to_string of the props: the entries in the order the hash map
\* iterates them, which is any order (every map has its own RandomState).
Serializations(props) ==
    {[i \in 1..Cardinality(DOMAIN props) |-> <<o[i], props[o[i]]>>] : o \in Orders(DOMAIN props)}

\* compile_task_internal, step 3: the template, then the serialized props.
CacheKey(cmd, ser) == <<cmd, ser>>

Undefined == [found |-> FALSE, val |-> ""]

Defined(v) == [found |-> TRUE, val |-> v]

\* PropsContext::get_value.
PropsGet(module, taskProps, callProps, k) ==
    IF k \in DOMAIN callProps THEN Defined(callProps[k])
    ELSE IF k \in DOMAIN taskProps THEN Defined(taskProps[k])
    ELSE IF k \in DOMAIN module.props THEN Defined(module.props[k])
    ELSE IF module.uses.kind = "hash" /\ module.uses.h \in DOMAIN metamodules
            /\ k \in DOMAIN metamodules[module.uses.h].module.props
         THEN Defined(metamodules[module.uses.h].module.props[k])
         ELSE Undefined

\* A closure that drops what the call supplies.
CallArgsDropped(args) == EmptyMap

\* The closure of TaskScopeProxy::get_value: the first argument, as props.
CallArgs(args) == IF Len(args) > 0 THEN args[1] ELSE EmptyMap

NoModule == [found |-> FALSE, module |-> DefaultModule]

SomeModule(m) == [found |-> TRUE, module |-> m]

\* RootContext::get_value for a name other than props and tasks.
RootSub(module, name) ==
    IF name \in DOMAIN module.modules THEN SomeModule(module.modules[name]) ELSE NoModule

\* ModuleContext::get_value for a name other than props and tasks.
ModuleSub(module, name) ==
    IF name \in DOMAIN module.modules THEN SomeModule(module.modules[name])
    ELSE IF module.uses.kind = "hash" /\ module.uses.h \in DOMAIN metamodules
            /\ name \in DOMAIN metamodules[module.uses.h].module.modules
         THEN SomeModule(metamodules[module.uses.h].module.modules[name])
         ELSE NoModule

\* The module context `a.b. ... .tasks` is looked up in: the first name
\* through the root context, the others through the module contexts.
RECURSIVE ResolveFrom(_, _, _)
ResolveFrom(module, path, i) ==
    IF i > Len(path) THEN SomeModule(module)
    ELSE LET sub == IF i = 1 THEN RootSub(module, path[i]) ELSE ModuleSub(module, path[i])
         IN IF sub.found THEN ResolveFrom(sub.module, path, i + 1) ELSE NoModule

ResolvePath(module, path) == ResolveFrom(module, path, 1)

\* PipelineError::Internal(message); a message is the sequence of its pieces.
Internal(msg) == [variant |-> "Internal", msg |-> msg]

\* format!("Task {} not found", task_name)
TaskNotFoundText(name) == <<"Task ", name, " not found">>

AllStoresEmpty ==
    /\ content' = EmptyMap
    /\ metamodules' = EmptyMap
    /\ aliases' = EmptyMap
    /\ tasks' = EmptyMap

ScriptErr(e) == [NoScript EXCEPT !.kind = "err", !.err = e]

\* An error leaves Pipeline::render by `?`: the stores, taken out of the pipeline
\* on entry, are not put back.  A render started by generate fails generate.
FailRender(e) ==
    /\ AllStoresEmpty
    /\ pc' = "idle"
    /\ stack' = <<>>
    /\ ret' = NoRet
    /\ visited' = {}
    /\ result' = Err(e, req)
    /\ UNCHANGED req
    /\ IF req.by = "generate"
       THEN /\ genPc' = "idle"
            /\ script' = ScriptErr(e)
            /\ genTodo' = {}
            /\ genCmds' = <<>>
            /\ genOut' = <<>>
            /\ genSeen' = {}
            /\ genQueue' = <<>>
       ELSE UNCHANGED genVars

\* The recursion is deeper than the stack: the process aborts.
CrashRender ==
    /\ pc' = "crashed"
    /\ UNCHANGED <<req, stack, ret, visited, result, storeVars, genVars>>

\* A call of compile_task_internal from a running one.
PushOrCrash(frames) ==
    IF Len(frames) > StackLimit
    THEN CrashRender
    ELSE /\ stack' = frames
         /\ UNCHANGED <<pc, req, ret, visited, result, storeVars, genVars>>

\* Pipeline::render up to its call of compile_task_internal.
BeginRender(alias, task, by) ==
    LET r == [alias |-> alias, task |-> task, by |-> by] IN
    /\ req' = r
    /\ IF alias \notin DOMAIN aliases \/ aliases[alias] \notin DOMAIN metamodules
       THEN /\ AllStoresEmpty
            /\ result' = Err(Internal(IF alias \notin DOMAIN aliases
                                         THEN <<"Alias ", alias, " not found">>
                                         ELSE <<"Module missing">>), r)
            /\ UNCHANGED <<pc, stack, ret, visited>>
       ELSE /\ stack' = <<EnterFrame(metamodules[aliases[alias]].module, task, EmptyMap)>>
            /\ pc' = "run"
            /\ visited' = {}
            /\ UNCHANGED <<ret, result, storeVars>>

Idle == pc = "idle" /\ genPc = "idle" /\ ppc = "idle"

TaskNames == UNION {DOMAIN metamodules[h].module.tasks : h \in DOMAIN metamodules} \cup {"missing"}

\* The harness: register_module, i.e. Store::insert into metamodules and aliases.
RegisterModule ==
    /\ Idle
    /\ regIdx < Len(Scenario(scenario))
    /\ LET r == Scenario(scenario)[regIdx + 1] IN
        /\ metamodules' = Put(metamodules, r.hash, MetaModule(r.module, r.hash))
        /\ aliases' = Put(aliases, r.alias, r.hash)
    /\ regIdx' = regIdx + 1
    /\ UNCHANGED <<scenario, content, tasks, renderVars, genVars, parseVars, apiVars>>

\* Pipeline::render(alias, task), called from outside.
RenderStart ==
    /\ Idle
    /\ \E alias \in DOMAIN aliases \cup {"nope"}, task \in TaskNames :
        BeginRender(alias, task, "api")
    /\ UNCHANGED <<harnessVars, genVars, parseVars, apiVars>>

Running == pc = "run" /\ stack # <<>> /\ ret.kind = "none"

\* compile_task_internal from its entry to the start of the template's
\* rendering: lookup, `uses` sugar, props, hash, cache probe.
CompileEnter ==
    /\ Running
    /\ Top.phase = "enter"
    /\ LET f == Top
           look == TaskLookup(f.module, f.name)
           def == look.def
       IN IF ~look.found
          THEN FailRender(Internal(TaskNotFoundText(f.name)))
          ELSE IF def.uses.kind = "hash"
          THEN PushOrCrash(Append(ReplaceTop([f EXCEPT !.phase = "tail", !.def = def]),
                                  EnterFrame(VirtualModule(def.uses.h, MergedProps(def.props, f.call)),
                                             "main", EmptyMap)))
          ELSE LET eff == EffectiveProps(f.module, def, f.call) IN
               \E ser \in Serializations(eff) :
                  LET key == CacheKey(def.cmd, ser) IN
                  IF key \in DOMAIN tasks
                  THEN /\ visited' = visited \cup {key}
                       /\ ret' = NodeRet(tasks[key], {})
                       /\ stack' = Pop
                       /\ UNCHANGED <<pc, req, result, storeVars, genVars>>
                  ELSE /\ stack' = ReplaceTop([f EXCEPT !.phase = "render", !.def = def, !.eff = eff,
                                                        !.key = key, !.pos = 1])
                       /\ UNCHANGED <<pc, req, ret, visited, result, storeVars, genVars>>
    /\ UNCHANGED <<harnessVars, parseVars, apiVars>>

AtSegment(kind) ==
    /\ Running
    /\ Top.phase = "render"
    /\ Top.pos <= Len(Top.def.cmd)
    /\ Top.def.cmd[Top.pos].kind = kind

Seg == Top.def.cmd[Top.pos]

Emit(pieces) ==
    /\ stack' = ReplaceTop([Top EXCEPT !.out = Top.out \o pieces, !.pos = Top.pos + 1])
    /\ UNCHANGED <<pc, req, ret, visited, result, storeVars, genVars>>

\* Literal text of the template.
StepLit ==
    /\ AtSegment("lit")
    /\ Emit(<<Seg.text>>)
    /\ UNCHANGED <<harnessVars, parseVars, apiVars>>

\* `{{ props.k }}`: the value, or nothing when k is undefined.
StepProp ==
    /\ AtSegment("prop")
    /\ LET v == PropsGet(Top.module, Top.def.props, Top.call, Seg.name)
       IN Emit(IF v.found THEN <<v.val>> ELSE <<>>)
    /\ UNCHANGED <<harnessVars, parseVars, apiVars>>

\* `{{ [sub.]tasks.t }}`: the function value is printed, not called; a task
\* that does not exist is an undefined value and prints as nothing.  A
\* submodule that does not exist fails the attribute lookup on it.
StepRef ==
    /\ AtSegment("ref")
    /\ LET ctx == ResolvePath(Top.module, Seg.path) IN
       IF ~ctx.found
       THEN FailRender(Internal(<<"undefined value">>))
       ELSE Emit(IF ProxyLookup(ctx.module, Seg.name).found THEN <<FnRepr>> ELSE <<>>)
    /\ UNCHANGED <<harnessVars, parseVars, apiVars>>

\* `{{ [sub.]tasks.t(k=v) }}`: the closure of TaskScopeProxy::get_value.
StepCall ==
    /\ AtSegment("call")
    /\ LET ctx == ResolvePath(Top.module, Seg.path)
           look == ProxyLookup(ctx.module, Seg.name)
           def == look.def
           args == CallArgs(Seg.args)
       IN IF ~ctx.found
          THEN FailRender(Internal(<<"undefined value">>))
          ELSE IF ~look.found
          THEN FailRender(Internal(<<"unknown method">>))
          ELSE IF def.uses.kind = "hash"
          THEN PushOrCrash(Append(stack, EnterFrame(VirtualModule(def.uses.h, MergedProps(def.props, args)),
                                                    "main", EmptyMap)))
          ELSE PushOrCrash(Append(stack, EnterFrame(ctx.module, Seg.name, args)))
    /\ UNCHANGED <<harnessVars, parseVars, apiVars>>

\* An end of compilation that records the node's hash as visited.
CompileFinishRecords ==
    /\ Running
    /\ Top.phase = "render"
    /\ Top.pos > Len(Top.def.cmd)
    /\ ret' = NodeRet(TaskNode(Top.out, visited, Top.key, Top.name), Top.called)
    /\ visited' = visited \cup {Top.key}
    /\ stack' = Pop
    /\ UNCHANGED <<pc, req, result, storeVars, genVars, harnessVars, parseVars, apiVars>>

\* compile_task_internal after the rendering: the node, its deps the visited set.
CompileFinish ==
    /\ Running
    /\ Top.phase = "render"
    /\ Top.pos > Len(Top.def.cmd)
    /\ ret' = NodeRet(TaskNode(Top.out, visited, Top.key, Top.name), Top.called)
    /\ stack' = Pop
    /\ UNCHANGED <<pc, req, visited, result, storeVars, genVars, harnessVars, parseVars, apiVars>>

Returning == pc = "run" /\ ret.kind = "node"

\* The closure returns node.cmd, which the engine writes at the call.
ReturnCall ==
    /\ Returning
    /\ stack # <<>>
    /\ Top.phase = "render"
    /\ stack' = ReplaceTop([Top EXCEPT !.out = Top.out \o ret.node.cmd, !.pos = Top.pos + 1,
                                       !.called = Top.called \cup {ret.node.hash}])
    /\ ret' = NoRet
    /\ UNCHANGED <<pc, req, visited, result, storeVars, genVars, harnessVars, parseVars, apiVars>>

\* `return compile_task_internal(virtual_ctx, "main", ..)`: the node of main
\* is the node of the delegating task.
ReturnTail ==
    /\ Returning
    /\ stack # <<>>
    /\ Top.phase = "tail"
    /\ stack' = Pop
    /\ UNCHANGED <<pc, req, ret, visited, result, storeVars, genVars, harnessVars, parseVars, apiVars>>

\* Pipeline::render after compile_task_internal: the stores are put back.
RenderFinish ==
    /\ Returning
    /\ stack = <<>>
    /\ result' = Ok(ret.node, req)
    /\ ret' = NoRet
    /\ visited' = {}
    /\ pc' = "idle"
    /\ genPc' = IF req.by = "generate" THEN "collect" ELSE genPc
    /\ UNCHANGED <<req, stack, storeVars, genTodo, genCmds, genOut, genSeen, genQueue, script,
                   harnessVars, parseVars, apiVars>>

\* ---------------------------------------------------------------- emitter

\* format!("{:x}", hash): the hexadecimal digits of the hash.
Hex(h) == [hex |-> h]

\* format!("{}:{}", root_alias, task_name)
EntryName(alias, task) == <<alias, ":", task>>

\* format!("task_{:x}", dep_hash)
DepName(h) == <<"task_", Hex(h)>>

\* A TemplateTask; `hash` and `deps` are history: those of the node it was made from.
TemplateTask(name, body, source, hash, deps) ==
    [name |-> name, body |-> body, source |-> source, hash |-> hash, deps |-> deps]

EntryTask(alias, task, node) ==
    TemplateTask(EntryName(alias, task), node.cmd, <<alias, ".", task>>, node.hash, node.deps)

DepTask(h, node) == TemplateTask(DepName(h), node.cmd, <<"Hash: ", Hex(h)>>, h, node.deps)

ScriptOk(entries, commands) ==
    [NoScript EXCEPT !.kind = "ok", !.tasks = entries, !.commands = commands, !.root_alias = RootAlias]

\* generate, step 1: the root module's task names.
GenerateStart ==
    /\ Idle
    /\ IF RootAlias \notin DOMAIN aliases \/ aliases[RootAlias] \notin DOMAIN metamodules
       THEN /\ script' = ScriptErr(Internal(IF RootAlias \notin DOMAIN aliases
                                             THEN <<"Root alias not found">>
                                             ELSE <<"Root module not found">>))
            /\ UNCHANGED <<genPc, genTodo>>
       ELSE /\ genPc' = "entries"
            /\ genTodo' = DOMAIN metamodules[aliases[RootAlias]].module.tasks
            /\ script' = NoScript
    /\ genCmds' = <<>>
    /\ genOut' = <<>>
    /\ genSeen' = {}
    /\ genQueue' = <<>>
    /\ UNCHANGED <<harnessVars, storeVars, renderVars, parseVars, apiVars>>

\* generate, step 2: the next root task, in the order the map of tasks
\* iterates, is compiled by Pipeline::render.
GenerateEntry ==
    /\ genPc = "entries"
    /\ pc = "idle"
    /\ \E name \in genTodo :
        /\ BeginRender(RootAlias, name, "generate")
        /\ genTodo' = genTodo \ {name}
        /\ genCmds' = Append(genCmds, name)
    /\ IF RootAlias \in DOMAIN aliases /\ aliases[RootAlias] \in DOMAIN metamodules
       THEN UNCHANGED <<genPc, script>>
       ELSE genPc' = "idle" /\ script' = ScriptErr(result'.err)
    /\ UNCHANGED <<genOut, genSeen, genQueue, harnessVars, parseVars, apiVars>>

\* generate, step 2, with the node render returned: an entry point is
\* emitted unless its hash has been.
GenerateCollect ==
    /\ genPc = "collect"
    /\ LET node == result.node IN
       IF node.hash \notin genSeen
       THEN /\ genSeen' = genSeen \cup {node.hash}
            /\ genOut' = Append(genOut, EntryTask(RootAlias, result.task, node))
            /\ genQueue' = Append(genQueue, node)
       ELSE UNCHANGED <<genSeen, genOut, genQueue>>
    /\ genPc' = "entries"
    /\ UNCHANGED <<genTodo, genCmds, script, harnessVars, storeVars, renderVars, parseVars, apiVars>>

\* The loop over one node's deps, in the order `order`.
RECURSIVE ExpandDeps(_, _, _)
ExpandDeps(order, i, acc) ==
    IF i > Len(order) THEN acc
    ELSE LET d == order[i] IN
         ExpandDeps(order, i + 1,
            IF d \in acc.seen THEN acc
            ELSE IF d \in DOMAIN tasks
                 THEN [seen |-> acc.seen \cup {d},
                       out |-> Append(acc.out, DepTask(d, tasks[d])),
                       queue |-> Append(acc.queue, tasks[d])]
                 ELSE [acc EXCEPT !.seen = acc.seen \cup {d}])

\* An expansion that leaves the node at the head of the queue.
GenerateExpandKeepsHead ==
    /\ genPc = "entries"
    /\ pc = "idle"
    /\ genTodo = {}
    /\ genQueue # <<>>
    /\ \E order \in Orders(Head(genQueue).deps) :
        LET acc == ExpandDeps(order, 1, [seen |-> genSeen, out |-> genOut, queue |-> genQueue])
        IN /\ genSeen' = acc.seen
           /\ genOut' = acc.out
           /\ genQueue' = acc.queue
    /\ UNCHANGED <<genPc, genTodo, genCmds, script, harnessVars, storeVars, renderVars, parseVars, apiVars>>

\* generate, step 3: one node leaves the queue; its deps not seen yet are
\* fetched from the tasks store, emitted and queued.
GenerateExpand ==
    /\ genPc = "entries"
    /\ pc = "idle"
    /\ genTodo = {}
    /\ genQueue # <<>>
    /\ \E order \in Orders(Head(genQueue).deps) :
        LET acc == ExpandDeps(order, 1, [seen |-> genSeen, out |-> genOut, queue |-> Tail(genQueue)])
        IN /\ genSeen' = acc.seen
           /\ genOut' = acc.out
           /\ genQueue' = acc.queue
    /\ UNCHANGED <<genPc, genTodo, genCmds, script, harnessVars, storeVars, renderVars, parseVars, apiVars>>

\* generate, step 4: the script template gets the entries, the command
\* names and the root alias.
GenerateFinish ==
    /\ genPc = "entries"
    /\ pc = "idle"
    /\ genTodo = {}
    /\ genQueue = <<>>
    /\ script' = ScriptOk(genOut, genCmds)
    /\ genPc' = "idle"
    /\ genCmds' = <<>>
    /\ genOut' = <<>>
    /\ genSeen' = {}
    /\ UNCHANGED <<genTodo, genQueue, harnessVars, storeVars, renderVars, parseVars, apiVars>>

\* ----------------------------------------------------------------- parser

\* The texts a file can hold, by number, and what load_source makes of each.
\* A text is a module file; a submodule key may carry a feature, `lib[dev]`.
HelloTask == [t \in {"hello"} |-> Cmd(<<Lit("echo hello")>>)]

SubUsing(path) == Module(Define(path), EmptyMap, EmptyMap, EmptyMap)

\* The task of scenario S1: `echo {{ props.msg }}`.
EchoMsg == [t \in {"hello"} |-> Cmd(<<Lit("echo "), Prop("msg")>>)]

OneTask(name, text) == [t \in {name} |-> Cmd(<<Lit(text)>>)]

\* A submodule `lib` and its variant `lib[dev]`: both define the prop `level`
\* and the task `hello`, the task `trace` is in the variant alone.
FeatureText ==
    Module(NoUse, EmptyMap, HelloTask,
           [k \in {"lib", "lib[dev]"} |->
               IF k = "lib"
               THEN Module(NoUse, OneProp("level", "base"), HelloTask, EmptyMap)
               ELSE Module(NoUse, OneProp("level", "dev"),
                           Extend(OneTask("hello", "echo dev"), OneTask("trace", "set -x")), EmptyMap)])

\* The reserved keys: `tasks[dev]` redefines hello and adds build, `props[dev]`
\* redefines msg.
ReservedText ==
    Module(NoUse, OneProp("msg", "World"), HelloTask,
           [k \in {"tasks[dev]", "props[dev]"} |->
               IF k = "tasks[dev]"
               THEN Module(NoUse, EmptyMap,
                           Extend(OneTask("hello", "echo dev"), OneTask("build", "make")), EmptyMap)
               ELSE Module(NoUse, OneProp("msg", "Dev"), EmptyMap, EmptyMap)])

LoadSource(text) ==
    CASE text = 1 -> Module(Define("a.yaml"), EmptyMap, HelloTask, EmptyMap)
      [] text = 2 -> Module(Define("b.yaml"), EmptyMap, HelloTask, EmptyMap)
      [] text = 3 -> Module(Define("c.yaml"), EmptyMap, EmptyMap, EmptyMap)
      [] text = 4 -> Module(NoUse, OneProp("msg", "World"), EchoMsg, EmptyMap)
      [] text = 5 -> Module(NoUse, EmptyMap, HelloTask, [k \in {"lib"} |-> SubUsing("b.yaml")])
      [] text = 6 -> Module(Define("c.yaml"), EmptyMap, EmptyMap, [k \in {"lib"} |-> SubUsing("a.yaml")])
      [] text = 7 -> FeatureText
      [] text = 8 -> ReservedText
      [] OTHER -> Module(Define("b.yaml"), EmptyMap, HelloTask, [k \in {"lib"} |-> SubUsing("c.yaml")])

Texts == 1..9

FileNames == {"a.yaml", "b.yaml", "c.yaml"}

\* Config.source_path
SourcePath == "a.yaml"

\* A hash that is the same for every text.
StrHashCollides(text) == 1000

\* str_hash: a seeded hash of the text, the same for the same text.
StrHash(text) == 1000 + text

\* A split that finds no feature in any key.
ParseFeatureNoSuffix(full) == [name |-> full, feature |-> "", has |-> FALSE]

\* parse_feature: `name[feature]` split at the bracket.
ParseFeature(full) ==
    CASE full = "lib[dev]" -> [name |-> "lib", feature |-> "dev", has |-> TRUE]
      [] full = "lib[prod]" -> [name |-> "lib", feature |-> "prod", has |-> TRUE]
      [] full = "tasks[dev]" -> [name |-> "tasks", feature |-> "dev", has |-> TRUE]
      [] full = "props[dev]" -> [name |-> "props", feature |-> "dev", has |-> TRUE]
      [] OTHER -> [name |-> full, feature |-> "", has |-> FALSE]

\* A merge in which the entries of the base stay.
MergeModuleKeepBase(base, addition) ==
    [base EXCEPT !.tasks = Extend(addition.tasks, base.tasks),
                 !.props = Extend(addition.props, base.props)]

\* merge_module_in_place
MergeModuleInPlace(base, addition) ==
    [base EXCEPT !.tasks = Extend(base.tasks, addition.tasks),
                 !.props = Extend(base.props, addition.props)]

\* The loop of merge_features over mf.modules, iterated in the order `order`.
RECURSIVE MergeLoop(_, _, _, _, _)
MergeLoop(mf, feats, order, i, acc) ==
    IF i > Len(order) THEN acc
    ELSE LET full == order[i]
             pf == ParseFeature(full)
             fm == mf.modules[full]
         IN MergeLoop(mf, feats, order, i + 1,
              IF pf.has /\ pf.feature \notin feats THEN acc
              ELSE IF pf.name \in {"tasks", "props"} THEN MergeModuleInPlace(acc, fm)
              ELSE IF pf.name \in DOMAIN acc.modules
                   THEN [acc EXCEPT !.modules[pf.name] = MergeModuleInPlace(acc.modules[pf.name], fm)]
                   ELSE [acc EXCEPT !.modules = Put(acc.modules, pf.name, fm)])

\* merge_features
MergeFeatures(mf, is_src, feats, order) ==
    LET default_module == Module(mf.uses, mf.props, mf.tasks, EmptyMap)
    IN IF is_src THEN MergeLoop(mf, feats, order, 1, default_module) ELSE default_module

\* A ModuleJob; `from` is "" for None.
ModuleJob(path, from, alias) == [path |-> path, from |-> from, alias |-> alias]

\* resolve_path_and_alias, the path: with `from` None the job's path joined to
\* its own parent.  The root's path is canonical (absolute) and stays; an
\* import's path `./x` becomes `././x`, relative to the working directory.
ResolvedPath(job, isRoot) == [abs |-> isRoot, name |-> job.path]

\* resolve_path_and_alias, the alias (no alias of the model contains a `.`).
JoinedAlias(job) == IF job.from = "" THEN job.alias ELSE <<job.from, ".", job.alias>>

\* An activation of Pipeline::parse.  stage "enter": called; "uses": the
\* module is loaded and merged, its `uses` comes next; "wait_uses" and
\* "wait_sub": the import is being parsed; "subs": the loop over the
\* submodules, `todo` those left.
ParseFrame(stage, job, isRoot, alias, hash, module, todo, cur) ==
    [stage |-> stage, job |-> job, isRoot |-> isRoot, alias |-> alias, hash |-> hash,
     module |-> module, todo |-> todo, cur |-> cur]

ParseEnterFrame(job, isRoot) == ParseFrame("enter", job, isRoot, "", 0, DefaultModule, {}, "")

PTop == pstack[Len(pstack)]

PPop == SubSeq(pstack, 1, Len(pstack) - 1)

PReplaceTop(f) == [pstack EXCEPT ![Len(pstack)] = f]

NoParseResult == [kind |-> "none", hash |-> 0, err |-> ""]

NoParseRet == [kind |-> "none", hash |-> 0]

ParseOk(h) == [kind |-> "ok", hash |-> h, err |-> ""]

ParseErr(e) == [kind |-> "err", hash |-> 0, err |-> e]

ParseRet(h) == [kind |-> "mm", hash |-> h]

\* A Result<V, E> of a producer, and read_to_string of a path of the disk.
Produced(val) == [ok |-> TRUE, val |-> val, err |-> ""]

Failed(e) == [ok |-> FALSE, val |-> 0, err |-> e]

ReadToString(path) == IF fs[path.name] = 0 THEN Failed("Io") ELSE Produced(fs[path.name])

\* A store that keeps a failure of the producer under the key.
QueryOrComputeKeepsFailure(store, key, produced) ==
    IF key \in DOMAIN store
    THEN [ok |-> store[key] # 0, val |-> store[key], err |-> IF store[key] # 0 THEN "" ELSE "Io", store |-> store]
    ELSE IF produced.ok
    THEN [ok |-> TRUE, val |-> produced.val, err |-> "", store |-> Put(store, key, produced.val)]
    ELSE [ok |-> FALSE, val |-> 0, err |-> produced.err, store |-> Put(store, key, 0)]

\* A producer that is run although the key is present, its result stored.
QueryOrComputeAlways(store, key, produced) ==
    IF produced.ok
    THEN [ok |-> TRUE, val |-> produced.val, err |-> "", store |-> Put(store, key, produced.val)]
    ELSE [ok |-> FALSE, val |-> 0, err |-> produced.err, store |-> store]

\* Store::query_or_compute_with (query_or_compute_as_arc is the same but for
\* the Arc): `produced` is what the producer returns if it is run.
QueryOrCompute(store, key, produced) ==
    IF key \in DOMAIN store
    THEN [ok |-> TRUE, val |-> store[key], err |-> "", store |-> store]
    ELSE IF produced.ok
    THEN [ok |-> TRUE, val |-> produced.val, err |-> "", store |-> Put(store, key, produced.val)]
    ELSE [ok |-> FALSE, val |-> 0, err |-> produced.err, store |-> store]

\* Pipeline::load_file
LoadFile(path) == QueryOrCompute(content, path, ReadToString(path))

\* What Pipeline::compile returns: a script, the text "script" itself.
NoCompiled == [kind |-> "none", script |-> <<>>, err |-> ""]

Compiling == [kind |-> "run", script |-> <<>>, err |-> ""]

CompileOk(text) == [kind |-> "ok", script |-> text, err |-> ""]

CompileErr(e) == [kind |-> "err", script |-> <<>>, err |-> e]

ScriptLiteral == [kind |-> "literal", text |-> "script"]

\* An error leaves every activation of parse by `?`, and compile with it.
FailParse(e) ==
    /\ presult' = ParseErr(e)
    /\ ppc' = "done"
    /\ pstack' = <<>>
    /\ pret' = NoParseRet
    /\ compiled' = IF compiled.kind = "run" THEN CompileErr(e) ELSE compiled

\* The recursion is deeper than the stack: the process aborts.
CrashParse ==
    /\ ppc' = "crashed"
    /\ UNCHANGED <<pstack, pret, presult, compiled>>

\* The use job of an import: the importer's alias and `from`, the path named.
UseJob(f, path) == ModuleJob(path, f.job.from, f.alias)

\* Nothing of the pipeline is running.
Ready == pc = "idle" /\ genPc = "idle" /\ ppc \in {"idle", "done"}

\* parse_root up to its call of parse: the source path is canonicalized.
BeginParse(by) ==
    IF fs[SourcePath] = 0
    THEN /\ presult' = ParseErr("Io")
         /\ ppc' = "done"
         /\ compiled' = IF by = "compile" THEN CompileErr("Io") ELSE compiled
         /\ UNCHANGED <<pstack, pret>>
    ELSE /\ pstack' = <<ParseEnterFrame(ModuleJob(SourcePath, "", RootAlias), TRUE)>>
         /\ ppc' = "run"
         /\ presult' = NoParseResult
         /\ compiled' = IF by = "compile" THEN Compiling ELSE compiled
         /\ UNCHANGED pret

\* parse_root, called from outside.
ParseRootStart ==
    /\ Ready
    /\ BeginParse("api")
    /\ UNCHANGED <<fs, features, loaded, harnessVars, storeVars, renderVars, genVars>>

\* Pipeline::compile, called from outside: it parses.
CompileStart ==
    /\ Ready
    /\ BeginParse("compile")
    /\ UNCHANGED <<fs, features, loaded, harnessVars, storeVars, renderVars, genVars>>

ParseRunning == ppc = "run" /\ pstack # <<>> /\ pret.kind = "none"

\* parse from its entry to the merged module: the path and alias, the text
\* (through the content store), its hash, the cache probe, load_source,
\* merge_features.
ParseOpen ==
    /\ ParseRunning
    /\ PTop.stage = "enter"
    /\ LET f == PTop
           path == ResolvedPath(f.job, f.isRoot)
           alias == JoinedAlias(f.job)
           file == LoadFile(path)
           hash == StrHash(file.val)
           raw == LoadSource(file.val)
       IN IF f.job.from = "" /\ f.job.alias # RootAlias
          THEN FailParse("InvalidAliasFormat") /\ UNCHANGED content
          ELSE IF ~file.ok
          THEN FailParse(file.err) /\ UNCHANGED content
          ELSE /\ content' = file.store
               /\ IF hash \in DOMAIN metamodules
                  THEN /\ pret' = ParseRet(hash)
                       /\ pstack' = PPop
                       /\ UNCHANGED <<ppc, presult, compiled>>
                  ELSE \E order \in Orders(DOMAIN raw.modules) :
                        /\ pstack' = PReplaceTop([f EXCEPT
                              !.stage = "uses", !.alias = alias, !.hash = hash,
                              !.module = MergeFeatures(raw, f.job.from = "", features, order)])
                        /\ UNCHANGED <<ppc, pret, presult, compiled>>
    /\ UNCHANGED <<fs, features, loaded, metamodules, aliases, tasks, harnessVars, renderVars, genVars>>

PushParse(frames) ==
    IF Len(frames) > StackLimit
    THEN CrashParse
    ELSE pstack' = frames /\ UNCHANGED <<ppc, pret, presult, compiled>>

\* parse at the module's own `uses`: a Define is parsed by a recursive call.
ParseUses ==
    /\ ParseRunning
    /\ PTop.stage = "uses"
    /\ IF PTop.module.uses.kind = "define"
       THEN PushParse(Append(PReplaceTop([PTop EXCEPT !.stage = "wait_uses"]),
                             ParseEnterFrame(UseJob(PTop, PTop.module.uses.path), FALSE)))
       ELSE /\ pstack' = PReplaceTop([PTop EXCEPT !.stage = "subs", !.todo = DOMAIN PTop.module.modules])
            /\ UNCHANGED <<ppc, pret, presult, compiled>>
    /\ UNCHANGED <<fs, features, loaded, harnessVars, storeVars, renderVars, genVars>>

\* parse in its loop over the submodules: the next one's `uses`.
ParseSub ==
    /\ ParseRunning
    /\ PTop.stage = "subs"
    /\ \E n \in PTop.todo :
        IF PTop.module.modules[n].uses.kind = "define"
        THEN PushParse(Append(PReplaceTop([PTop EXCEPT !.stage = "wait_sub", !.cur = n]),
                              ParseEnterFrame(UseJob(PTop, PTop.module.modules[n].uses.path), FALSE)))
        ELSE /\ pstack' = PReplaceTop([PTop EXCEPT !.todo = PTop.todo \ {n}])
             /\ UNCHANGED <<ppc, pret, presult, compiled>>
    /\ UNCHANGED <<fs, features, loaded, harnessVars, storeVars, renderVars, genVars>>

\* A return that leaves the Define as it is.
ParseReturnKeepsDefine ==
    /\ ppc = "run"
    /\ pret.kind = "mm"
    /\ pstack # <<>>
    /\ pstack' = PReplaceTop(
          IF PTop.stage = "wait_uses"
          THEN [PTop EXCEPT !.stage = "subs", !.todo = DOMAIN PTop.module.modules]
          ELSE [PTop EXCEPT !.stage = "subs", !.todo = PTop.todo \ {PTop.cur}, !.cur = ""])
    /\ pret' = NoParseRet
    /\ UNCHANGED <<ppc, presult, fs, features, apiVars, harnessVars, storeVars, renderVars, genVars>>

\* The recursive call returned: the Define is rewritten to the Hash.
ParseReturn ==
    /\ ppc = "run"
    /\ pret.kind = "mm"
    /\ pstack # <<>>
    /\ pstack' = PReplaceTop(
          IF PTop.stage = "wait_uses"
          THEN [PTop EXCEPT !.stage = "subs", !.module.uses = Hash(pret.hash),
                            !.todo = DOMAIN PTop.module.modules]
          ELSE [PTop EXCEPT !.stage = "subs", !.module.modules[PTop.cur].uses = Hash(pret.hash),
                            !.todo = PTop.todo \ {PTop.cur}, !.cur = ""])
    /\ pret' = NoParseRet
    /\ UNCHANGED <<ppc, presult, fs, features, apiVars, harnessVars, storeVars, renderVars, genVars>>

\* An end of parse that binds the alias and does not store the MetaModule.
ParseStoreAliasOnly ==
    /\ ParseRunning
    /\ PTop.stage = "subs"
    /\ PTop.todo = {}
    /\ aliases' = Put(aliases, PTop.alias, PTop.hash)
    /\ pret' = ParseRet(PTop.hash)
    /\ pstack' = PPop
    /\ UNCHANGED <<ppc, presult, content, metamodules, tasks, fs, features, apiVars, harnessVars,
                   renderVars, genVars>>

\* parse at its end: the MetaModule is stored under its hash and the alias bound.
ParseStore ==
    /\ ParseRunning
    /\ PTop.stage = "subs"
    /\ PTop.todo = {}
    /\ metamodules' = Put(metamodules, PTop.hash, MetaModule(PTop.module, PTop.hash))
    /\ aliases' = Put(aliases, PTop.alias, PTop.hash)
    /\ pret' = ParseRet(PTop.hash)
    /\ pstack' = PPop
    /\ UNCHANGED <<ppc, presult, content, tasks, fs, features, apiVars, harnessVars, renderVars, genVars>>

\* parse_root returns the root's MetaModule; a compile that called it goes
\* on: it writes the stores to the cache file (Config.enable_cache), which
\* can fail, and returns the text "script".
ParseFinish ==
    /\ ppc = "run"
    /\ pret.kind = "mm"
    /\ pstack = <<>>
    /\ presult' = ParseOk(pret.hash)
    /\ pret' = NoParseRet
    /\ ppc' = "done"
    /\ IF compiled.kind = "run"
       THEN \E written \in BOOLEAN :
               compiled' = IF written THEN CompileOk(ScriptLiteral) ELSE CompileErr("Io")
       ELSE UNCHANGED compiled
    /\ UNCHANGED <<pstack, fs, features, loaded, harnessVars, storeVars, renderVars, genVars>>

\* A result of load_file; `path` and `retried` are history: the path asked
\* for, and whether the call before it asked for the same path and failed.
NoLoaded == [kind |-> "none", text |-> 0, err |-> "", path |-> [abs |-> FALSE, name |-> ""], retried |-> FALSE]

\* Pipeline::load_file(path), called from outside.
LoadFileCall ==
    /\ Ready
    /\ \E path \in [abs : BOOLEAN, name : FileNames] :
        LET file == LoadFile(path) IN
        /\ content' = file.store
        /\ loaded' = [kind |-> IF file.ok THEN "ok" ELSE "err", text |-> file.val, err |-> file.err,
                      path |-> path, retried |-> loaded.kind = "err" /\ loaded.path = path]
    /\ UNCHANGED <<metamodules, aliases, tasks, fs, features, ppc, pstack, pret, presult, compiled,
                   harnessVars, renderVars, genVars>>

\* The texts the world writes: those of the files that import nothing.
WrittenTexts == {t \in Texts : LoadSource(t).uses = NoUse /\ "lib" \notin DOMAIN LoadSource(t).modules}

\* The world: a file is written, or removed.
WriteFile ==
    /\ Ready
    /\ \E name \in FileNames, text \in {0} \cup WrittenTexts :
        /\ text # fs[name]
        /\ fs' = [fs EXCEPT ![name] = text]
    /\ UNCHANGED <<features, ppc, pstack, pret, presult, apiVars, harnessVars, storeVars, renderVars, genVars>>

\* ---------------------------------------------------------- specification



InitStores ==
    /\ content = EmptyMap
    /\ metamodules = EmptyMap
    /\ aliases = EmptyMap
    /\ tasks = EmptyMap

InitRender ==
    /\ pc = "idle"
    /\ req = NoReq
    /\ stack = <<>>
    /\ ret = NoRet
    /\ visited = {}
    /\ result = NoResult

InitGen ==
    /\ genPc = "idle"
    /\ genTodo = {}
    /\ genCmds = <<>>
    /\ genOut = <<>>
    /\ genSeen = {}
    /\ genQueue = <<>>
    /\ script = NoScript

InitParse ==
    /\ ppc = "idle"
    /\ pstack = <<>>
    /\ pret = NoParseRet
    /\ presult = NoParseResult
    /\ compiled = NoCompiled
    /\ loaded = NoLoaded

\* A new pipeline, and a harness about to arrange one of the scenarios.
Init ==
    /\ scenario \in Scenarios
    /\ regIdx = 0
    /\ fs = EmptyMap
    /\ features = {"default"}
    /\ InitStores
    /\ InitRender
    /\ InitGen
    /\ InitParse

Next ==
    \/ RegisterModule
    \/ RenderStart
    \/ CompileEnter
    \/ StepLit
    \/ StepProp
    \/ StepRef
    \/ StepCall
    \/ CompileFinish
    \/ ReturnCall
    \/ ReturnTail
    \/ RenderFinish
    \/ GenerateStart
    \/ GenerateEntry
    \/ GenerateCollect
    \/ GenerateExpand
    \/ GenerateFinish

Spec == Init /\ [][Next]_vars

\* A new pipeline whose root source file is a.yaml, in any of the file systems.
InitFiles ==
    /\ scenario = "none"
    /\ regIdx = 0
    /\ fs \in [FileNames -> {0} \cup Texts]
    /\ features \in {{"default"}, {"default", "dev"}}
    /\ InitStores
    /\ InitRender
    /\ InitGen
    /\ InitParse

NextParse ==
    \/ ParseRootStart
    \/ CompileStart
    \/ ParseOpen
    \/ ParseUses
    \/ ParseSub
    \/ ParseReturn
    \/ ParseStore
    \/ ParseFinish

SpecParse == InitFiles /\ [][NextParse]_vars

\* A new pipeline and load_file alone, on a disk whose files come and go.
NextLoad ==
    \/ LoadFileCall
    \/ WriteFile

InitLoad ==
    /\ scenario = "none"
    /\ regIdx = 0
    /\ fs \in [FileNames -> {0} \cup WrittenTexts]
    /\ features = {"default"}
    /\ InitStores
    /\ InitRender
    /\ InitGen
    /\ InitParse

SpecLoad == InitLoad /\ [][NextLoad]_vars

\* The emitter's expansion on its own, for every content of the tasks store:
\* the hashes of the stored nodes, 0 the hash of the entry point's node.
StoredHashes == 1..MaxNodes

EntryHash == 0

\* The tasks stores: some of the hashes, each with a node whose deps are any
\* hashes, its own, another node's or one the store does not hold.
TaskStores ==
    UNION {[S -> [cmd : {<<"echo">>}, deps : SUBSET StoredHashes, hash : StoredHashes, alias : {"t"}]] :
              S \in SUBSET StoredHashes}

\* generate after its step 2: one entry point compiled, emitted and queued.
InitExpand ==
    /\ scenario = "none"
    /\ regIdx = 0
    /\ fs = [f \in FileNames |-> 0]
    /\ features = {"default"}
    /\ content = EmptyMap
    /\ metamodules = EmptyMap
    /\ aliases = EmptyMap
    /\ tasks \in {t \in TaskStores : \A h \in DOMAIN t : t[h].hash = h}
    /\ InitRender
    /\ InitParse
    /\ genPc = "entries"
    /\ genTodo = {}
    /\ genCmds = <<"main">>
    /\ \E deps \in SUBSET ({EntryHash} \cup StoredHashes) :
          LET node == TaskNode(<<"echo">>, deps, EntryHash, "main") IN
          /\ genOut = <<EntryTask(RootAlias, "main", node)>>
          /\ genSeen = {EntryHash}
          /\ genQueue = <<node>>
    /\ script = NoScript

NextExpand ==
    \/ GenerateExpand
    \/ GenerateFinish

\* The loop of generate runs on: nothing but itself can stop it.
SpecExpand == InitExpand /\ [][NextExpand]_vars /\ WF_vars(NextExpand)

\* ------------------------------------------------------------- properties

\* The files the module of a text imports: its own `uses` and its submodules'.
Imports(text) ==
    LET m == LoadSource(text) IN
    (IF m.uses.kind = "define" THEN {m.uses.path} ELSE {})
    \cup {m.modules[k].uses.path : k \in {j \in DOMAIN m.modules : m.modules[j].uses.kind = "define"}}

\* The files reached from the files S by at most n imports, files that do
\* not exist importing nothing.
RECURSIVE Reached(_, _)
Reached(S, n) ==
    IF n = 0 THEN S
    ELSE Reached(S \cup UNION {Imports(fs[f]) : f \in {g \in S : fs[g] # 0}}, n - 1)

ImportedFrom(f) == Reached(Imports(fs[f]), Cardinality(FileNames))

\* The imports of the root exist and one of them is on a cycle.
CyclicImports ==
    LET files == Reached({SourcePath}, Cardinality(FileNames)) IN
    /\ \A f \in files : fs[f] # 0
    /\ \E f \in files : f \in ImportedFrom(f)

\* C1: parsing a root whose imports form a cycle never recurses beyond the
\* stack, and when it ends it has failed with CyclicDependency.
C1_CycleFailsWithCyclicDependency ==
    CyclicImports =>
        /\ ppc # "crashed"
        /\ ppc = "done" => presult = ParseErr("CyclicDependency")

\* The value of k inherited through the whole `uses` chain of the module, the
\* nearest module that defines it first.
RECURSIVE InheritedGet(_, _, _)
InheritedGet(module, k, hops) ==
    IF hops = 0 \/ module.uses.kind # "hash" \/ module.uses.h \notin DOMAIN metamodules
    THEN Undefined
    ELSE LET m == metamodules[module.uses.h].module IN
         IF k \in DOMAIN m.props THEN Defined(m.props[k]) ELSE InheritedGet(m, k, hops - 1)

\* call > task > module > inherited through the chain.
LayeredGet(module, taskProps, callProps, k) ==
    IF k \in DOMAIN callProps THEN Defined(callProps[k])
    ELSE IF k \in DOMAIN taskProps THEN Defined(taskProps[k])
    ELSE IF k \in DOMAIN module.props THEN Defined(module.props[k])
    ELSE InheritedGet(module, k, Cardinality(DOMAIN metamodules))

C2Step ==
    AtSegment("prop") =>
        LET v == LayeredGet(Top.module, Top.def.props, Top.call, Seg.name) IN
        /\ Len(stack') = Len(stack)
        /\ stack'[Len(stack)].out = Top.out \o (IF v.found THEN <<v.val>> ELSE <<>>)

\* C2: where a template reads props.x, the text written is the value of the
\* highest layer that defines x among call, task, module and the props
\* inherited through the module's whole `uses` chain.
C2_PropsPrecedenceThroughChain == [][C2Step]_vars

\* The task is defined in the module or in a module of its `uses` chain.
RECURSIVE DefinedInChain(_, _, _)
DefinedInChain(module, name, hops) ==
    \/ name \in DOMAIN module.tasks
    \/ /\ hops > 0
       /\ module.uses.kind = "hash"
       /\ module.uses.h \in DOMAIN metamodules
       /\ DefinedInChain(metamodules[module.uses.h].module, name, hops - 1)

C3Step ==
    (Running /\ Top.phase = "enter"
        /\ DefinedInChain(Top.module, Top.name, Cardinality(DOMAIN metamodules)))
    => ~(result'.kind = "err" /\ \E n \in TaskNames : result'.err = Internal(TaskNotFoundText(n)))

\* C3: a task defined anywhere in the `uses` chain of the module it is asked
\* of, however many hops away, is found: its compilation does not fail with
\* "Task not found".
C3_TransitiveTaskLookup == [][C3Step]_vars

\* C4: the node returned for a task has in its deps the hash of every node
\* its template got back from a task reference.
C4_DepsHoldReferencedHashes ==
    ret.kind = "node" => ret.called \subseteq ret.node.deps

C5Step ==
    (AtSegment("ref") /\ ResolvePath(Top.module, Seg.path).found) =>
        LET ctx == ResolvePath(Top.module, Seg.path).module IN
        IF ProxyLookup(ctx, Seg.name).found
        THEN /\ Len(stack') = Len(stack) + 1
             /\ stack'[Len(stack')].name = Seg.name
             /\ stack'[Len(stack')].call = EmptyMap
        ELSE result'.kind = "err"

\* C5: a reference by name alone, `tasks.foo`, compiles foo with empty
\* call props (to write task_<hex> for its hash), and fails the compilation
\* when foo does not exist.
C5_NameReferenceCompiles == [][C5Step]_vars

\* The keyword arguments written at a call.
Supplied(seg) == IF seg.args = <<>> THEN EmptyMap ELSE seg.args[1]

\* The text of a task: its template with every props.k replaced by its
\* value, every call by the text of the task called with the props the call
\* supplies, a task with `uses` standing for `main` of the module it names.
RECURSIVE Inlined(_, _, _, _)
RECURSIVE InlinedFrom(_, _, _, _, _)
Inlined(module, name, call, depth) ==
    LET def == TaskLookup(module, name).def IN
    IF depth = 0 THEN <<>>
    ELSE IF def.uses.kind = "hash"
    THEN Inlined(Module(def.uses, Extend(def.props, call), EmptyMap, EmptyMap), "main", EmptyMap, depth - 1)
    ELSE InlinedFrom(module, def, call, 1, depth)

InlinedFrom(module, def, call, i, depth) ==
    IF i > Len(def.cmd) THEN <<>>
    ELSE LET seg == def.cmd[i]
             v == PropsGet(module, def.props, call, seg.name)
             ctx == ResolvePath(module, seg.path).module
             piece == CASE seg.kind = "lit" -> <<seg.text>>
                        [] seg.kind = "prop" -> IF v.found THEN <<v.val>> ELSE <<>>
                        [] seg.kind = "ref" -> IF ProxyLookup(ctx, seg.name).found THEN <<FnRepr>> ELSE <<>>
                        [] OTHER -> Inlined(ctx, seg.name, Supplied(seg), depth - 1)
         IN piece \o InlinedFrom(module, def, call, i + 1, depth)

RootModuleOf(alias) == metamodules[aliases[alias]].module

C6Step ==
    /\ (AtSegment("call") /\ Len(stack') = Len(stack) + 1) =>
          LET ctx == ResolvePath(Top.module, Seg.path).module IN
          ProxyLookup(ctx, Seg.name).def.uses.kind # "hash" =>
              stack'[Len(stack')] = EnterFrame(ctx, Seg.name, Supplied(Seg))
    /\ (Returning /\ stack # <<>> /\ Top.phase = "render") =>
          /\ Len(stack') = Len(stack)
          /\ stack'[Len(stack)].out = Top.out \o ret.node.cmd
          /\ stack'[Len(stack)].pos = Top.pos + 1

C6Text ==
    (Returning /\ stack = <<>>) =>
        ret.node.cmd = Inlined(RootModuleOf(req.alias), req.task, EmptyMap, StackLimit)

\* C6: a called reference tasks.foo(k=v) compiles foo with exactly the props
\* the call supplies, the text foo rendered to is written at the call, and
\* the text of the task rendered is its template with every call replaced by
\* the text of the task called.
C6_CallCompilesAndInlines == [][C6Step]_vars /\ []C6Text

\* A render has returned the text of a task that calls another with a prop.
C6_Witness ==
    /\ result.kind = "ok"
    /\ result.alias = "root_call"
    /\ result.task = "caller"
    /\ result.node.cmd = <<"CALL_LEVEL">>

\* The module a task with `uses` is rendered through: nothing but the `uses`
\* and the task's props overridden by the call's.
FreshModule(def, call) ==
    [uses |-> def.uses, props |-> [k \in DOMAIN def.props \cup DOMAIN call |->
                                      IF k \in DOMAIN call THEN call[k] ELSE def.props[k]],
     tasks |-> EmptyMap, modules |-> EmptyMap]

IsMainOf(f, def, call) ==
    /\ f.module = FreshModule(def, call)
    /\ f.name = "main"
    /\ f.call = EmptyMap

C7Frames ==
    \A i \in 1..Len(stack) :
        /\ stack[i].phase = "render" => stack[i].def.uses.kind # "hash"
        /\ stack[i].phase = "tail" =>
              /\ stack[i].def.uses.kind = "hash"
              /\ stack[i].out = <<>>
              /\ i < Len(stack) => IsMainOf(stack[i + 1], stack[i].def, stack[i].call)

C7Step ==
    /\ (Running /\ Top.phase = "enter" /\ TaskLookup(Top.module, Top.name).def.uses.kind = "hash"
            /\ Len(stack') = Len(stack) + 1) =>
          /\ stack'[Len(stack)].phase = "tail"
          /\ IsMainOf(stack'[Len(stack')], TaskLookup(Top.module, Top.name).def, Top.call)
    /\ (AtSegment("call") /\ Len(stack') = Len(stack) + 1) =>
          LET def == ProxyLookup(ResolvePath(Top.module, Seg.path).module, Seg.name).def IN
          def.uses.kind = "hash" => IsMainOf(stack'[Len(stack')], def, Supplied(Seg))
    /\ (Returning /\ stack # <<>> /\ Top.phase = "tail") =>
          /\ ret' = ret
          /\ stack' = Pop

\* C7: a task whose definition has `uses: Hash(h)` is rendered as `main`,
\* compiled with empty call props through a fresh module with that `uses`
\* and the task's props overridden by the call's; the node of main is the
\* node of the task, whose own cmd is never rendered.
C7_UsesSugarRendersMain == []C7Frames /\ [][C7Step]_vars

\* A render has returned the text of a task with `uses` that a call passed
\* a prop the task defines too.
C7_Witness ==
    /\ result.kind = "ok"
    /\ result.alias = "consumer"
    /\ result.task = "caller"
    /\ result.node.cmd = <<"Library Action: ", "call">>

\* The template and the props a hash was computed from.
HashedCmd(hash) == hash[1]

HashedProps(hash) == {hash[2][i] : i \in DOMAIN hash[2]}

C8Step ==
    (result.kind = "ok" /\ result'.kind = "ok"
        /\ HashedCmd(result'.node.hash) = HashedCmd(result.node.hash)
        /\ HashedProps(result'.node.hash) = HashedProps(result.node.hash))
    => result'.node.hash = result.node.hash

C8OneBody ==
    \A i, j \in DOMAIN script.tasks :
        script.tasks[i].hash = script.tasks[j].hash => i = j

\* C8: two renderings of a task with the same effective props yield the same
\* hash, and the script has one body for each hash.
C8_SameHashOneBody == [][C8Step]_vars /\ []C8OneBody

\* C9: the entries of the script are closed under deps, and every node a
\* compilation returns is in the tasks store under its hash.
C9_ClosedUnderDepsAndPersisted ==
    /\ \A i \in DOMAIN script.tasks : \A d \in script.tasks[i].deps :
          \E j \in DOMAIN script.tasks : script.tasks[j].hash = d
    /\ ret.kind = "node" => ret.node.hash \in DOMAIN tasks

\* C10: every task of the root module has a function <root_alias>:<task>
\* in the script, and a function emitted for a dependency is task_<hex>.
C10_EntryAndDependencyNames ==
    script.kind = "ok" =>
        /\ \A c \in DOMAIN script.commands : \E i \in DOMAIN script.tasks :
              /\ script.tasks[i].name = <<script.root_alias, ":", script.commands[c]>>
              /\ script.tasks[i].source = <<script.root_alias, ".", script.commands[c]>>
        /\ \A i \in DOMAIN script.tasks :
              \/ \E c \in DOMAIN script.commands :
                    script.tasks[i].name = <<script.root_alias, ":", script.commands[c]>>
              \/ script.tasks[i].name = <<"task_", Hex(script.tasks[i].hash)>>

\* C11: a compile that succeeds returns the script the emitter made of the
\* root module's tasks: a function <root>:<task> for each, and for the
\* root file of scenario S1 the function root:hello with the body `echo World`.
C11_CompileReturnsEmittedScript ==
    compiled.kind = "ok" =>
        /\ compiled.script.kind = "ok"
        /\ \A t \in DOMAIN RootModuleOf(RootAlias).tasks :
              \E i \in DOMAIN compiled.script.tasks :
                  compiled.script.tasks[i].name = <<RootAlias, ":", t>>
        /\ LoadSource(fs[SourcePath]) = Module(NoUse, OneProp("msg", "World"), EchoMsg, EmptyMap) =>
              \E i \in DOMAIN compiled.script.tasks :
                  /\ compiled.script.tasks[i].name = <<RootAlias, ":", "hello">>
                  /\ compiled.script.tasks[i].body = <<"echo ", "World">>

\* A call of load_file that changed what the pipeline holds.
LoadStep == fs' = fs /\ <<content, loaded>>' # <<content, loaded>>

C12Step ==
    LoadStep =>
        LET k == loaded'.path IN
        IF k \in DOMAIN content
        THEN /\ loaded'.kind = "ok"
             /\ loaded'.text = content[k]
             /\ content' = content
        ELSE fs[k.name] # 0 =>
             /\ loaded'.kind = "ok"
             /\ loaded'.text = fs[k.name]
             /\ DOMAIN content' = DOMAIN content \cup {k}
             /\ content'[k] = fs[k.name]
             /\ \A j \in DOMAIN content : content'[j] = content[j]

\* C12: a query for a key that is present returns the stored value and leaves
\* the store as it is, whatever the producer would return; a query for an
\* absent key whose producer succeeds stores the result under the key,
\* returns it and leaves every other key alone.
C12_QueryOrComputeHitAndMiss == [][C12Step]_vars

\* load_file has returned the stored text of a file that has another text,
\* or none, on the disk by now.
C12_Witness ==
    /\ loaded.kind = "ok"
    /\ loaded.path \in DOMAIN content
    /\ loaded.text = content[loaded.path]
    /\ fs[loaded.path.name] # loaded.text

C13Step ==
    /\ (LoadStep /\ loaded'.path \notin DOMAIN content /\ fs[loaded'.path.name] = 0) =>
          /\ loaded'.kind = "err"
          /\ loaded'.err = "Io"
          /\ content' = content
    /\ (LoadStep /\ loaded.kind = "err" /\ loaded'.path = loaded.path) =>
          IF fs[loaded.path.name] = 0
          THEN loaded'.kind = "err"
          ELSE loaded'.kind = "ok" /\ loaded'.text = fs[loaded.path.name]

C13Absent == loaded.kind = "err" => loaded.path \notin DOMAIN content

\* C13: a producer's failure is returned and the store stays as it was, the
\* key absent; the next query for the key runs the producer again, so the
\* next load_file of the path reads the disk again.
C13_FailureNotMemoized == [][C13Step]_vars /\ []C13Absent

\* A load of a path that had just failed has read the file written since.
C13_Witness ==
    /\ loaded.kind = "ok"
    /\ loaded.retried
    /\ loaded.path \in DOMAIN content

\* C14: every alias is bound to the hash of a MetaModule that is in
\* metamodules, whatever resolutions have run, ended or failed.
C14_AliasesReferStoredModules ==
    \A a \in DOMAIN aliases : aliases[a] \in DOMAIN metamodules

\* A resolution has aborted after it had bound the alias.
C14_Witness ==
    /\ ppc = "crashed"
    /\ RootAlias \in DOMAIN aliases
    /\ aliases[RootAlias] \in DOMAIN metamodules

\* The `uses` is absent, or the hash of a stored MetaModule.
Resolved(uses) == uses.kind # "define" /\ (uses.kind = "hash" => uses.h \in DOMAIN metamodules)

\* C15: in every stored MetaModule the module's `uses` and the `uses` of each
\* immediate submodule is a Hash of a stored MetaModule, never a Define,
\* also when a resolution has failed part-way.
C15_StoredUsesAreResolved ==
    \A h \in DOMAIN metamodules :
        /\ Resolved(metamodules[h].module.uses)
        /\ \A k \in DOMAIN metamodules[h].module.modules :
              Resolved(metamodules[h].module.modules[k].uses)

\* A resolution has aborted after it had stored a module with an import.
C15_Witness ==
    /\ ppc = "crashed"
    /\ \E h \in DOMAIN metamodules :
          /\ metamodules[h].module.uses.kind = "hash"
          /\ metamodules[h].module.uses.h \in DOMAIN metamodules

\* The text with the hash h.
TextOf(h) == CHOOSE t \in Texts : StrHash(t) = h

\* The imports of the stored module h: the path its file names and the
\* handle it got for it.
Handles(h) ==
    LET raw == LoadSource(TextOf(h))
        m == metamodules[h].module
    IN (IF raw.uses.kind = "define" /\ m.uses.kind = "hash" THEN {<<raw.uses.path, m.uses.h>>} ELSE {})
       \cup {<<raw.modules[k].uses.path, m.modules[k].uses.h>> :
                k \in {j \in DOMAIN raw.modules \cap DOMAIN m.modules :
                          raw.modules[j].uses.kind = "define" /\ m.modules[j].uses.kind = "hash"}}

C16Same ==
    /\ \A i \in 1..Len(pstack) : pstack[i].stage # "enter" => pstack[i].hash \notin DOMAIN metamodules
    /\ \A x, y \in UNION {Handles(h) : h \in DOMAIN metamodules} : x[1] = y[1] => x[2] = y[2]

C16Step ==
    /\ \A h \in DOMAIN metamodules : h \in DOMAIN metamodules' /\ metamodules'[h] = metamodules[h]
    /\ (ParseRunning /\ PTop.stage = "enter" /\ pret'.kind = "mm") =>
          /\ metamodules' = metamodules
          /\ pret'.hash \in DOMAIN metamodules
          /\ pstack' = PPop
    /\ (ppc = "run" /\ pret.kind = "mm" /\ pstack # <<>>) =>
          /\ pret.hash \in DOMAIN metamodules
          /\ IF PTop.stage = "wait_uses"
             THEN pstack'[Len(pstack)].module.uses = [kind |-> "hash", path |-> "", h |-> pret.hash]
             ELSE pstack'[Len(pstack)].module.modules[PTop.cur].uses
                     = [kind |-> "hash", path |-> "", h |-> pret.hash]

\* C16: importers that name the same file get the same MetaModule: a file is
\* parsed only while its content hash has no entry, an entry is never
\* replaced, and a resolution of stored content returns the entry.
C16_SameFileSameMetaModule == []C16Same /\ [][C16Step]_vars

\* Two stored modules import the same file.
C16_Witness ==
    \E h1, h2 \in DOMAIN metamodules :
        /\ h1 # h2
        /\ \E x \in Handles(h1), y \in Handles(h2) : x = y

\* The root file has been resolved: what it holds, and what is stored for it.
RootResolved == presult.kind = "ok" /\ presult.hash \in DOMAIN metamodules

RootRaw == LoadSource(fs[SourcePath])

RootMerged == metamodules[presult.hash].module

\* The feature-suffixed keys, the name and the feature of each.
FeatureKeys ==
    {[key |-> "lib[dev]", name |-> "lib", feature |-> "dev"],
     [key |-> "tasks[dev]", name |-> "tasks", feature |-> "dev"],
     [key |-> "props[dev]", name |-> "props", feature |-> "dev"]}

Reserved == {"tasks", "props"}

\* The variants of submodules in the root file, and those of the reserved names.
Variants == {v \in FeatureKeys : v.key \in DOMAIN RootRaw.modules /\ v.name \notin Reserved}

ReservedVariants == {v \in FeatureKeys : v.key \in DOMAIN RootRaw.modules /\ v.name \in Reserved}

\* A module's own tasks and props.
Own(m) == [tasks |-> m.tasks, props |-> m.props]

\* A module without the `uses`, its submodules' tasks and props.
Parsed(m) == [tasks |-> m.tasks, props |-> m.props, modules |-> [k \in DOMAIN m.modules |-> Own(m.modules[k])]]

\* The task t is in the variant v of the root file and in no other module
\* of the same name.
OnlyIn(v, t) ==
    /\ t \in DOMAIN RootRaw.modules[v.key].tasks
    /\ v.name \in DOMAIN RootRaw.modules => t \notin DOMAIN RootRaw.modules[v.name].tasks
    /\ \A w \in Variants \ {v} : w.name = v.name => t \notin DOMAIN RootRaw.modules[w.key].tasks

\* C17: a task that is in a variant m[feat] of the root file alone is in the
\* merged submodule m if and only if feat is active; an inactive variant
\* contributes nothing to the merged root.
C17_FeatureGating ==
    RootResolved =>
        \A v \in Variants :
            /\ v.key \notin DOMAIN RootMerged.modules
            /\ \A t \in DOMAIN RootRaw.modules[v.key].tasks :
                  OnlyIn(v, t) =>
                      (v.feature \in features
                          <=> /\ v.name \in DOMAIN RootMerged.modules
                              /\ t \in DOMAIN RootMerged.modules[v.name].tasks)
            /\ (v.feature \notin features /\ \A w \in Variants : w.name = v.name => w.feature \notin features) =>
                  IF v.name \in DOMAIN RootRaw.modules
                  THEN Own(RootMerged.modules[v.name]) = Own(RootRaw.modules[v.name])
                  ELSE v.name \notin DOMAIN RootMerged.modules

\* The root is resolved with the feature active, and the task of the
\* variant alone is in the merged submodule.
C17_Witness ==
    /\ RootResolved
    /\ "dev" \in features
    /\ \E v \in Variants, t \in {"trace"} :
          /\ OnlyIn(v, t)
          /\ t \in DOMAIN RootMerged.modules[v.name].tasks

\* C18: where the root file has a submodule `name` and an active variant
\* `name[feat]`, the merged submodule holds the variant's value for every
\* task and prop the variant defines.
C18_FeaturesOverwriteBase ==
    RootResolved =>
        \A v \in Variants :
            (v.feature \in features /\ v.name \in DOMAIN RootRaw.modules) =>
                /\ \A t \in DOMAIN RootRaw.modules[v.key].tasks :
                      RootMerged.modules[v.name].tasks[t] = RootRaw.modules[v.key].tasks[t]
                /\ \A q \in DOMAIN RootRaw.modules[v.key].props :
                      RootMerged.modules[v.name].props[q] = RootRaw.modules[v.key].props[q]

\* C19: a module reached through an import is stored as it was parsed: its
\* tasks, its props and all its submodules, the feature-suffixed keys too.
C19_ImportsStoredAsParsed ==
    \A h \in DOMAIN metamodules :
        h # StrHash(fs[SourcePath]) => Parsed(metamodules[h].module) = Parsed(LoadSource(TextOf(h)))

\* The values the active variants of a reserved name give the key.
ReservedTasks(t) ==
    {RootRaw.modules[v.key].tasks[t] :
        v \in {w \in ReservedVariants : w.feature \in features /\ t \in DOMAIN RootRaw.modules[w.key].tasks}}

ReservedProps(q) ==
    {RootRaw.modules[v.key].props[q] :
        v \in {w \in ReservedVariants : w.feature \in features /\ q \in DOMAIN RootRaw.modules[w.key].props}}

\* C20: the tasks and props of an active `tasks[feat]` or `props[feat]` of
\* the root file are in the root module's own tasks and props with the
\* variant's values, and the merged root has no submodule for the key.
C20_ReservedKeysMergeInPlace ==
    RootResolved =>
        /\ \A v \in ReservedVariants :
              /\ v.key \notin DOMAIN RootMerged.modules
              /\ v.name \notin DOMAIN RootMerged.modules
              /\ v.feature \in features =>
                    /\ \A t \in DOMAIN RootRaw.modules[v.key].tasks :
                          t \in DOMAIN RootMerged.tasks /\ RootMerged.tasks[t] \in ReservedTasks(t)
                    /\ \A q \in DOMAIN RootRaw.modules[v.key].props :
                          q \in DOMAIN RootMerged.props /\ RootMerged.props[q] \in ReservedProps(q)
        /\ (\A v \in ReservedVariants : v.feature \notin features) => Own(RootMerged) = Own(RootRaw)

\* The root is resolved with the feature active, and the task of
\* `tasks[dev]` alone is among the root module's tasks.
C20_Witness ==
    /\ RootResolved
    /\ "dev" \in features
    /\ ReservedVariants # {}
    /\ "build" \in DOMAIN RootMerged.tasks
    /\ "build" \notin DOMAIN RootRaw.tasks

\* The activation that called the innermost one, and the segment it is at.
Caller == stack[Len(stack) - 1]

CallerSeg == Caller.def.cmd[Caller.pos]

\* The innermost activation compiles a task of a submodule of the caller's
\* module, reached by `<sub>.tasks.t(args)`.
ThroughSubmodule ==
    /\ Len(stack) > 1
    /\ Caller.phase = "render"
    /\ Caller.pos <= Len(Caller.def.cmd)
    /\ CallerSeg.kind = "call"
    /\ Len(CallerSeg.path) = 1
    /\ CallerSeg.path[1] \in DOMAIN Caller.module.modules
    /\ CallerSeg.name \in DOMAIN Caller.module.modules[CallerSeg.path[1]].tasks
    /\ Caller.module.modules[CallerSeg.path[1]].tasks[CallerSeg.name].uses.kind # "hash"

C21Step ==
    (AtSegment("prop") /\ ThroughSubmodule) =>
        LET sub == Caller.module.modules[CallerSeg.path[1]]
            v == LayeredGet(sub, sub.tasks[CallerSeg.name].props, Supplied(CallerSeg), Seg.name)
        IN /\ Len(stack') = Len(stack)
           /\ stack'[Len(stack)].out = Top.out \o (IF v.found THEN <<v.val>> ELSE <<>>)

\* C21: where the template of a task called as <sub>.tasks.t(args) reads
\* props.x, the text written is the value of the highest layer that defines
\* x among the call's args, t's own props, the props of the submodule as the
\* calling module inlines it, and the props inherited through the
\* submodule's `uses`; the calling module's props are no layer.
C21_SubmoduleTaskInSubmoduleContext == [][C21Step]_vars

\* The pieces of a message.
Pieces(msg) == {msg[i] : i \in DOMAIN msg}

C22Step ==
    (Running /\ Top.phase = "enter"
        /\ ~DefinedInChain(Top.module, Top.name, Cardinality(DOMAIN metamodules)))
    => /\ result'.kind = "err"
       /\ result'.err.variant = "TaskNotFound"
       /\ Top.name \in Pieces(result'.err.msg)
       /\ ret'.kind = "none"

\* C22: the compilation of a task that neither the module nor any module of
\* its `uses` chain defines ends the render with a TaskNotFound error that
\* names the task, and no node is returned.
C22_MissingTaskIsTaskNotFound == [][C22Step]_vars

\* C23: a render ends, with a node or an error, also of a task whose template
\* leads back to itself: the recursion never grows past what the stack holds.
C23_SelfReferenceTerminates == pc # "crashed"

\* C25: a node returned during a render and the node an earlier render
\* returned, made from the same template and the same props as a mapping,
\* have the same hash.
C25_HashIgnoresPropOrder ==
    (result.kind = "ok" /\ ret.kind = "node"
        /\ HashedCmd(ret.node.hash) = HashedCmd(result.node.hash)
        /\ HashedProps(ret.node.hash) = HashedProps(result.node.hash))
    => ret.node.hash = result.node.hash

\* A step in which Pipeline::render returns.
RenderReturns == (pc = "run" /\ pc' = "idle") \/ (pc = "idle" /\ pc' = "idle" /\ result' # result)

C26Step ==
    RenderReturns => content' = content /\ metamodules' = metamodules /\ aliases' = aliases

\* C26: when a render returns, with a node or with an error, the content,
\* metamodules and aliases stores hold what they held when it was called.
C26_RenderKeepsStores == [][C26Step]_vars

\* C27: a node returned during a render and the node an earlier render
\* returned, if they have the same hash, have the same rendered cmd.
C27_SameHashSameCmd ==
    (result.kind = "ok" /\ ret.kind = "node" /\ ret.node.hash = result.node.hash)
    => ret.node.cmd = result.node.cmd

\* C28: the deps of a node a compilation returns are among the hashes of the
\* nodes its own template got back from its task references.
C28_DepsOnlyOfOwnReferences ==
    ret.kind = "node" => ret.node.deps \subseteq ret.called

\* A task has returned its node to a template that got the node of another
\* task before, which the task itself does not reference.
C28_Witness ==
    /\ ret.kind = "node"
    /\ stack # <<>>
    /\ Top.phase = "render"
    /\ Top.called # {}
    /\ Top.called \cap ret.called = {}
    /\ ret.node.hash \notin Top.called

\* C29: every name in the script's list of commands has its function
\* <root_alias>:<name> among the script's tasks.
C29_CommandsHaveFunctions ==
    script.kind = "ok" =>
        \A c \in DOMAIN script.commands : \E i \in DOMAIN script.tasks :
            script.tasks[i].name = EntryName(script.root_alias, script.commands[c])

\* C24: in every state of a resolution, the states between its steps and
\* those after a failure too, the root alias is bound to nothing but the
\* content hash of the root source file.
C24_RootAliasIsRootFile ==
    RootAlias \in DOMAIN aliases => aliases[RootAlias] = StrHash(fs[SourcePath])

\* No hash is emitted, and so queued, twice.
C30Once ==
    /\ \A i, j \in DOMAIN genOut : genOut[i].hash = genOut[j].hash => i = j
    /\ \A i, j \in DOMAIN genQueue : genQueue[i].hash = genQueue[j].hash => i = j
    /\ \A i \in DOMAIN genQueue : genQueue[i].hash \in genSeen

\* C30: whatever the tasks store holds, deps that form a cycle or name the
\* node itself included, the expansion queues each hash at most once and
\* comes to its end: the queue empties and the script is made.
C30_ExpansionTerminates == []C30Once /\ <>(genQueue = <<>> /\ script.kind = "ok")

\* The script is made from a store in which two nodes depend on each other
\* and the entry point on itself, each emitted once.
C30_Witness ==
    /\ script.kind = "ok"
    /\ Len(script.tasks) = 3
    /\ \E h \in DOMAIN tasks : \E g \in DOMAIN tasks \ {h} : g \in tasks[h].deps /\ h \in tasks[g].deps
    /\ EntryHash \in script.tasks[1].deps

====
